---- MODULE Spec2Model ----
(***************************************************************************)
(* Model of iuliia-rust (src/src/lib.rs): schema lookups, word             *)
(* segmentation, ending resolution, per-letter resolution over a           *)
(* sentinel-padded window, and case propagation.                           *)
(*                                                                         *)
(* A string is a sequence of characters; a character is a one-element      *)
(* TLA+ string.  Option<T> is a sequence of length 0 (None) or 1 (Some).   *)
(* The character "ss" stands for U+00DF, whose uppercase form has two      *)
(* characters.                                                             *)
(***************************************************************************)
EXTENDS Integers, Sequences, FiniteSets, TLC

VARIABLES schema, entry, s, pc, segments, seg, word_by_letters, ending,
          body, padded, win, hist, out, panicked

vars == <<schema, entry, s, pc, segments, seg, word_by_letters, ending,
          body, padded, win, hist, out, panicked>>

\* Longest input text drawn in Init.
MaxLen == 3

DUMMY_SYMBOL == "$"

\* Characters the input may contain: a cased letter in both cases, an
\* uncased-in-input letter, the dollar sign and a hyphen.
Alphabet == {"a", "A", "b", "$", "-"}

None == <<>>
Some(v) == <<v>>

----------------------------------------------------------------------------
(* Character primitives of the standard library. *)

\* char::is_uppercase
is_uppercase(c) == c \in {"A", "B", "E", "F", "H", "K", "M", "N", "O", "P",
                          "Q", "R", "S"}

\* char::to_uppercase: a character's uppercase form is a string.
char_to_uppercase(c) ==
    CASE c = "a" -> <<"A">> [] c = "b" -> <<"B">> [] c = "e" -> <<"E">>
      [] c = "f" -> <<"F">> [] c = "h" -> <<"H">> [] c = "k" -> <<"K">>
      [] c = "m" -> <<"M">> [] c = "n" -> <<"N">> [] c = "o" -> <<"O">>
      [] c = "p" -> <<"P">> [] c = "q" -> <<"Q">> [] c = "r" -> <<"R">>
      [] c = "ss" -> <<"S", "S">>
      [] OTHER -> <<c>>

\* char::to_lowercase on the characters of the input alphabet.
char_to_lowercase(c) ==
    CASE c = "A" -> "a" [] c = "B" -> "b" [] OTHER -> c

\* Unicode \w on the characters of the input alphabet.
is_word_char(c) == c \in {"a", "A", "b"}

RECURSIVE concat(_)
\* [String]::concat and Iterator::collect::<String>
concat(ss) == IF ss = <<>> THEN <<>> ELSE Head(ss) \o concat(Tail(ss))

\* str::to_uppercase
to_uppercase(str) == concat([i \in 1..Len(str) |-> char_to_uppercase(str[i])])

\* str::to_lowercase
to_lowercase(str) == [i \in 1..Len(str) |-> char_to_lowercase(str[i])]

\* str::replace(DUMMY_SYMBOL, "")
strip_dummy(str) == SelectSeq(str, LAMBDA c : c # DUMMY_SYMBOL)

\* HashMap::get on an Option<HashMap>: as_ref().and_then(|x| x.get(key))
table_get(table, key) ==
    IF table = None THEN None
    ELSE IF key \in DOMAIN table[1] THEN Some(table[1][key]) ELSE None

----------------------------------------------------------------------------
(* Schema *)

get_pref(S, str) == table_get(S.prev_mapping, to_lowercase(strip_dummy(str)))

get_next(S, str) == table_get(S.next_mapping, to_lowercase(strip_dummy(str)))

get_letter(S, str) == table_get(S.mapping, to_lowercase(strip_dummy(str)))

get_ending(S, str) == table_get(S.ending_mapping, to_lowercase(str))

\* The schemas drawn in Init: every table is absent, or one of two maps.
MappingTables ==
    { None,
      Some(<<"a">> :> <<"m">>),
      Some(<<"a">> :> <<"m">> @@ <<"b">> :> <<"k", "h">>) }

PrevTables ==
    { None,
      Some(<<"a">> :> <<"p", "q">>),
      Some(<<"a">> :> <<"p", "q">> @@ <<"b", "a">> :> <<"r">>) }

NextTables ==
    { None,
      Some(<<"a", "b">> :> <<"n", "o">>),
      Some(<<"a", "b">> :> <<"n", "o">> @@ <<"a">> :> <<"ss", "n">>) }

EndingTables ==
    { None,
      Some(<<"b", "a">> :> <<"ss", "e">>),
      Some(<<"b", "a">> :> <<"ss", "e">> @@ <<"a">> :> <<"e", "f">>) }

Schemas ==
    [ mapping : MappingTables, prev_mapping : PrevTables,
      next_mapping : NextTables, ending_mapping : EndingTables ]

Inputs == UNION { [1..n -> Alphabet] : n \in 0..MaxLen }

----------------------------------------------------------------------------
(* Case propagation *)

propagate_case_all(result, source_letter, only_first_symbol) ==
    IF ~ \E i \in 1..Len(source_letter) : is_uppercase(source_letter[i])
    THEN result
    ELSE to_uppercase(result)

propagate_case_from_source(result, source_letter, only_first_symbol) ==
    IF ~ \E i \in 1..Len(source_letter) : is_uppercase(source_letter[i])
    THEN result
    ELSE IF only_first_symbol
         THEN IF result # <<>>
              THEN char_to_uppercase(Head(result)) \o Tail(result)
              ELSE <<>>
         ELSE to_uppercase(result)

----------------------------------------------------------------------------
(* Slices.  A Rust range lo..hi of a sequence of length n is SubSeq(lo+1,  *)
(* hi) when 0 <= lo <= hi <= n, and a panic otherwise.                     *)

slice_ok(lo, hi, n) == 0 <= lo /\ lo <= hi /\ hi <= n

slice(v, lo, hi) == SubSeq(v, lo + 1, hi)

Ok(v) == [panic |-> FALSE, value |-> v]
Panic == [panic |-> TRUE, value |-> None]

----------------------------------------------------------------------------
(* Ending resolver *)

Ending(translate, ending_start) ==
    [translate |-> translate, ending_start |-> ending_start]

parse_ending_floor_two(S, str) ==
    LET length == Len(str) IN
    IF length < 2 THEN Ok(None)
    ELSE IF get_ending(S, slice(str, length - 1, length)) # None
    THEN Ok(Some(Ending(
            propagate_case_from_source(
                get_ending(S, slice(str, length - 1, length))[1],
                slice(str, length - 1, length), FALSE),
            length - 1)))
    ELSE IF get_ending(S, slice(str, length - 2, length)) # None
    THEN Ok(Some(Ending(
            propagate_case_from_source(
                get_ending(S, slice(str, length - 2, length))[1],
                slice(str, length - 2, length), FALSE),
            length - 2)))
    ELSE Ok(None)

parse_ending_no_floor(S, str) ==
    LET length == Len(str) IN
    IF ~ slice_ok(length - 1, length, length) THEN Panic
    ELSE IF get_ending(S, slice(str, length - 1, length)) # None
    THEN Ok(Some(Ending(
            propagate_case_from_source(
                get_ending(S, slice(str, length - 1, length))[1],
                slice(str, length - 1, length), FALSE),
            length - 1)))
    ELSE IF ~ slice_ok(length - 2, length, length) THEN Panic
    ELSE IF get_ending(S, slice(str, length - 2, length)) # None
    THEN Ok(Some(Ending(
            propagate_case_from_source(
                get_ending(S, slice(str, length - 2, length))[1],
                slice(str, length - 2, length), FALSE),
            length - 2)))
    ELSE Ok(None)

parse_ending_two_first(S, str) ==
    LET length == Len(str) IN
    IF length < 3 THEN Ok(None)
    ELSE IF get_ending(S, slice(str, length - 2, length)) # None
    THEN Ok(Some(Ending(
            propagate_case_from_source(
                get_ending(S, slice(str, length - 2, length))[1],
                slice(str, length - 2, length), FALSE),
            length - 2)))
    ELSE IF get_ending(S, slice(str, length - 1, length)) # None
    THEN Ok(Some(Ending(
            propagate_case_from_source(
                get_ending(S, slice(str, length - 1, length))[1],
                slice(str, length - 1, length), FALSE),
            length - 1)))
    ELSE Ok(None)

parse_ending_case_of_word(S, str) ==
    LET length == Len(str) IN
    IF length < 3 THEN Ok(None)
    ELSE IF get_ending(S, slice(str, length - 1, length)) # None
    THEN Ok(Some(Ending(
            propagate_case_from_source(
                get_ending(S, slice(str, length - 1, length))[1],
                str, FALSE),
            length - 1)))
    ELSE IF get_ending(S, slice(str, length - 2, length)) # None
    THEN Ok(Some(Ending(
            propagate_case_from_source(
                get_ending(S, slice(str, length - 2, length))[1],
                str, FALSE),
            length - 2)))
    ELSE Ok(None)

\* The result is Ok(Option<Ending>), or Panic when a slice is out of range.
parse_ending(S, str) ==
    LET length == Len(str) IN
    IF length < 3 THEN Ok(None)
    ELSE IF ~ slice_ok(length - 1, length, length) THEN Panic
    ELSE IF get_ending(S, slice(str, length - 1, length)) # None
    THEN Ok(Some(Ending(
            propagate_case_from_source(
                get_ending(S, slice(str, length - 1, length))[1],
                slice(str, length - 1, length), FALSE),
            length - 1)))
    ELSE IF ~ slice_ok(length - 2, length, length) THEN Panic
    ELSE IF get_ending(S, slice(str, length - 2, length)) # None
    THEN Ok(Some(Ending(
            propagate_case_from_source(
                get_ending(S, slice(str, length - 2, length))[1],
                slice(str, length - 2, length), FALSE),
            length - 2)))
    ELSE Ok(None)

----------------------------------------------------------------------------
(* Letter resolver *)

or_else(opt, alt) == IF opt # None THEN opt ELSE alt

parse_letter_lookup_postfix_first(S, letter_with_neighbors) ==
    LET letter == slice(letter_with_neighbors, 1, 2) IN
    or_else(get_next(S, slice(letter_with_neighbors, 1, 3)),
      or_else(get_pref(S, slice(letter_with_neighbors, 0, 2)),
        or_else(get_letter(S, letter),
                Some(letter))))[1]

\* The lookup chain of parse_letter, before case propagation.
parse_letter_lookup(S, letter_with_neighbors) ==
    LET letter == slice(letter_with_neighbors, 1, 2) IN
    or_else(get_pref(S, slice(letter_with_neighbors, 0, 2)),
      or_else(get_next(S, slice(letter_with_neighbors, 1, 3)),
        or_else(get_letter(S, letter),
                Some(letter))))[1]

parse_letter(S, letter_with_neighbors) ==
    propagate_case_from_source(
        parse_letter_lookup(S, letter_with_neighbors),
        slice(letter_with_neighbors, 1, 2),
        TRUE)

----------------------------------------------------------------------------
(* Word segmenter *)

\* \b matches at offset p when exactly one of the characters before and
\* after the offset is a word character.
is_word_boundary(text, p) ==
    (p >= 1 /\ is_word_char(text[p])) # (p < Len(text) /\ is_word_char(text[p + 1]))

RECURSIVE split_from(_, _, _)
\* Regex::split: the text between successive matches, then the text after
\* the last match.
split_from(text, last, p) ==
    IF p > Len(text) THEN << slice(text, last, Len(text)) >>
    ELSE IF is_word_boundary(text, p)
         THEN << slice(text, last, p) >> \o split_from(text, p, p + 1)
         ELSE split_from(text, last, p + 1)

split_words_only(text) ==
    SelectSeq(split_from(text, 0, 0),
              LAMBDA w : \A i \in 1..Len(w) : is_word_char(w[i]))

split(text) == split_from(text, 0, 0)

----------------------------------------------------------------------------
(* Word transliterator *)

word_without_ending_whole(letters, e) == letters

\* word_by_letters[..ending.ending_start], or the whole word.
word_without_ending(letters, e) ==
    IF e # None THEN slice(letters, 0, e[1].ending_start) ELSE letters

\* Vec::windows(3): the number of windows of a vector of length n.
windows_count(n) == IF n >= 3 THEN n - 2 ELSE 0

----------------------------------------------------------------------------
(* State machine *)

Init ==
    /\ schema \in Schemas
    /\ entry \in {"parse_by_schema", "parse_word_by_schema"}
    /\ s \in Inputs
    /\ pc = "call"
    /\ segments = <<>>
    /\ seg = 0
    /\ word_by_letters = <<>>
    /\ ending = None
    /\ body = <<>>
    /\ padded = <<>>
    /\ win = 0
    /\ hist = <<>>
    /\ out = <<>>
    /\ panicked = FALSE

\* parse_by_schema: RE.split(s), each segment then goes to
\* parse_word_by_schema.
ParseBySchema ==
    /\ pc = "call"
    /\ entry = "parse_by_schema"
    /\ segments' = split(s)
    /\ seg' = 1
    /\ pc' = "word"
    /\ UNCHANGED <<schema, entry, s, word_by_letters, ending, body, padded,
                   win, hist, out, panicked>>

\* A direct call of the public parse_word_by_schema.
CallWord ==
    /\ pc = "call"
    /\ entry = "parse_word_by_schema"
    /\ segments' = <<s>>
    /\ seg' = 1
    /\ pc' = "word"
    /\ UNCHANGED <<schema, entry, s, word_by_letters, ending, body, padded,
                   win, hist, out, panicked>>

\* parse_word_by_schema up to the padded vector: the letters, the ending,
\* the body slice, the two dummy symbols.
WordStart ==
    /\ pc = "word"
    /\ LET letters == segments[seg]
           r == parse_ending(schema, letters)
           sliced == r.value = None
                     \/ slice_ok(0, r.value[1].ending_start, Len(letters))
       IN /\ word_by_letters' = letters
          /\ hist' = <<>>
          /\ win' = 0
          /\ IF r.panic \/ ~ sliced
             THEN /\ panicked' = TRUE
                  /\ pc' = "panic"
                  /\ ending' = None
                  /\ body' = <<>>
                  /\ padded' = <<>>
             ELSE /\ panicked' = FALSE
                  /\ pc' = "windows"
                  /\ ending' = r.value
                  /\ body' = word_without_ending(letters, r.value)
                  /\ padded' = <<DUMMY_SYMBOL>>
                                 \o word_without_ending(letters, r.value)
                                 \o <<DUMMY_SYMBOL>>
    /\ UNCHANGED <<schema, entry, s, segments, seg, out>>

\* One window of windows(3), mapped through parse_letter.
LetterStep ==
    /\ pc = "windows"
    /\ win < windows_count(Len(padded))
    /\ LET w == slice(padded, win, win + 3)
       IN hist' = Append(hist,
             [ window |-> w,
               at |-> win,
               pref_key |-> to_lowercase(strip_dummy(slice(w, 0, 2))),
               next_key |-> to_lowercase(strip_dummy(slice(w, 1, 3))),
               letter_key |-> to_lowercase(strip_dummy(slice(w, 1, 2))),
               raw |-> parse_letter_lookup(schema, w),
               res |-> parse_letter(schema, w) ])
    /\ win' = win + 1
    /\ UNCHANGED <<schema, entry, s, pc, segments, seg, word_by_letters,
                   ending, body, padded, out, panicked>>

\* .chain(once(parsed_end)).collect::<String>(), and the caller's next
\* segment.
WordCollect ==
    /\ pc = "windows"
    /\ win >= windows_count(Len(padded))
    /\ out' = Append(out,
                 concat([i \in 1..Len(hist) |-> hist[i].res])
                   \o (IF ending # None THEN ending[1].translate ELSE <<>>))
    /\ seg' = seg + 1
    /\ pc' = IF seg + 1 > Len(segments) THEN "return" ELSE "word"
    /\ UNCHANGED <<schema, entry, s, segments, word_by_letters, ending, body,
                   padded, win, hist, panicked>>

\* collect() of parse_by_schema: the result string is returned.
Return ==
    /\ pc = "return"
    /\ pc' = "done"
    /\ UNCHANGED <<schema, entry, s, segments, seg, word_by_letters, ending,
                   body, padded, win, hist, out, panicked>>

Next == ParseBySchema \/ CallWord \/ WordStart \/ LetterStep \/ WordCollect
        \/ Return

Spec == Init /\ [][Next]_vars

----------------------------------------------------------------------------
(* Vocabulary of the properties *)

\* A word has been taken up by parse_word_by_schema and its ending, body
\* and padded vector are those of the state.
InWord == pc = "windows" \/ (pc \in {"word", "return", "done"} /\ Len(out) >= 1)

\* The word of the state has been resolved completely; its output is the
\* last element of out.
Collected == pc \in {"word", "return", "done"} /\ Len(out) >= 1

WordOutput == out[Len(out)]

Outputs == [i \in 1..Len(hist) |-> hist[i].res]

has_uppercase(str) == \E i \in 1..Len(str) : is_uppercase(str[i])

first_upper(str) ==
    IF str = <<>> THEN <<>> ELSE char_to_uppercase(str[1]) \o Tail(str)

Suffix(k) == SubSeq(word_by_letters, Len(word_by_letters) - k + 1,
                    Len(word_by_letters))

EndingKeyPresent(k) ==
    /\ Len(word_by_letters) >= k
    /\ schema.ending_mapping # None
    /\ to_lowercase(Suffix(k)) \in DOMAIN schema.ending_mapping[1]

EndingValue(k) == schema.ending_mapping[1][to_lowercase(Suffix(k))]

----------------------------------------------------------------------------
(* C1 *)

PrefOf(w) == get_pref(schema, <<w[1], w[2]>>)
NextOf(w) == get_next(schema, <<w[2], w[3]>>)
LetterOf(w) == get_letter(schema, <<w[2]>>)

\* C1: every window [prev, cur, next] handed to parse_letter is resolved
\* first-match-wins: get_pref(prev+cur), else get_next(cur+next), else
\* get_letter(cur), else cur itself; when both context lookups succeed the
\* prev_mapping value is the one chosen before case propagation.
C1_PriorityOrder ==
    \A i \in 1..Len(hist) :
        LET w == hist[i].window IN
        /\ PrefOf(w) # None => hist[i].raw = PrefOf(w)[1]
        /\ PrefOf(w) = None /\ NextOf(w) # None => hist[i].raw = NextOf(w)[1]
        /\ PrefOf(w) = None /\ NextOf(w) = None /\ LetterOf(w) # None
              => hist[i].raw = LetterOf(w)[1]
        /\ PrefOf(w) = None /\ NextOf(w) = None /\ LetterOf(w) = None
              => hist[i].raw = <<w[2]>>

\* A window whose two context keys are both present with different values,
\* resolved.
C1_Witness ==
    \E i \in 1..Len(hist) :
        LET w == hist[i].window IN
        /\ PrefOf(w) # None /\ NextOf(w) # None
        /\ PrefOf(w)[1] # NextOf(w)[1]
        /\ Len(strip_dummy(w)) = 3

----------------------------------------------------------------------------
(* C2 *)

\* C2: a word of fewer than 3 characters has no ending match whatever the
\* ending table holds; every character goes through the letter resolver and
\* the tail appended to the output is empty.
C2_ShortWordNoEnding ==
    InWord /\ Len(word_by_letters) < 3 =>
        /\ ending = None
        /\ body = word_by_letters
        /\ Collected =>
              /\ Len(hist) = Len(word_by_letters)
              /\ \A i \in 1..Len(hist) : hist[i].window[2] = word_by_letters[i]
              /\ WordOutput = concat(Outputs)

\* A two-letter word whose last letter and whose two letters are both
\* ending keys, resolved completely.
C2_Witness ==
    /\ Collected
    /\ Len(word_by_letters) = 2
    /\ EndingKeyPresent(1)
    /\ EndingKeyPresent(2)

----------------------------------------------------------------------------
(* C3 *)

\* C3: for a word of length n >= 3 the last character is tried first as an
\* ending key and wins with ending_start = n-1 even when the last two
\* characters are a key too; the last two are tried only when it is absent
\* (ending_start = n-2); with neither there is no ending.  A matched
\* ending's output stands in the word's output for exactly the characters
\* from ending_start on.
C3_EndingOrder ==
    InWord /\ Len(word_by_letters) >= 3 =>
        LET n == Len(word_by_letters) IN
        /\ EndingKeyPresent(1) =>
              ending # None /\ ending[1].ending_start = n - 1
        /\ ~ EndingKeyPresent(1) /\ EndingKeyPresent(2) =>
              ending # None /\ ending[1].ending_start = n - 2
        /\ ~ EndingKeyPresent(1) /\ ~ EndingKeyPresent(2) => ending = None
        /\ ending # None =>
              /\ body = SubSeq(word_by_letters, 1, ending[1].ending_start)
              /\ Collected =>
                    /\ Len(hist) = ending[1].ending_start
                    /\ \A i \in 1..Len(hist) :
                          hist[i].window[2] = word_by_letters[i]
                    /\ WordOutput = concat(Outputs) \o ending[1].translate

\* A word of three or more letters whose last letter and last two letters
\* are both ending keys, resolved completely.
C3_Witness ==
    /\ Collected
    /\ Len(word_by_letters) >= 3
    /\ EndingKeyPresent(1)
    /\ EndingKeyPresent(2)
    /\ ending # None

----------------------------------------------------------------------------
(* C4 *)

\* C4: case propagation leaves the result unchanged when the source has no
\* uppercase character; with the first-symbol rule (every letter window,
\* source = the centre letter) it uppercases the first character of the
\* result only; with the full rule (the ending, source = the matched
\* suffix) it uppercases the whole result.
C4_CasePropagation ==
    /\ \A i \in 1..Len(hist) :
          LET cur == hist[i].window[2]
              raw == hist[i].raw
              res == hist[i].res
          IN /\ ~ is_uppercase(cur) => res = raw
             /\ is_uppercase(cur) =>
                   /\ raw = <<>> => res = <<>>
                   /\ raw # <<>> =>
                         /\ res = char_to_uppercase(raw[1]) \o Tail(raw)
                         /\ \A j \in 1..(Len(raw) - 1) :
                               res[Len(res) - j + 1] = raw[Len(raw) - j + 1]
    /\ InWord /\ ending # None =>
          LET k == Len(word_by_letters) - ending[1].ending_start IN
          /\ ~ has_uppercase(Suffix(k)) => ending[1].translate = EndingValue(k)
          /\ has_uppercase(Suffix(k)) =>
                ending[1].translate = to_uppercase(EndingValue(k))

\* An uppercase centre letter resolved to a result of several characters,
\* of which the later ones keep their case.
C4_Witness ==
    \E i \in 1..Len(hist) :
        /\ is_uppercase(hist[i].window[2])
        /\ Len(hist[i].raw) >= 2
        /\ hist[i].res # to_uppercase(hist[i].raw)
        /\ hist[i].res # hist[i].raw

----------------------------------------------------------------------------
(* C5 *)

Tables == {schema.mapping, schema.prev_mapping, schema.next_mapping,
           schema.ending_mapping}

\* c, in either case, occurs in no key of any of the four tables.
NoMapping(c) ==
    \A table \in Tables :
        table # None =>
            \A key \in DOMAIN table[1] :
                \A j \in 1..Len(key) :
                    key[j] # c /\ key[j] # char_to_lowercase(c)

\* C5: a character with no mapping in any table of the schema is emitted
\* unchanged as the output of its own window, whatever its neighbours and
\* position, and is never taken into a matched ending.
C5_Passthrough ==
    /\ \A i \in 1..Len(hist) :
          NoMapping(hist[i].window[2]) => hist[i].res = <<hist[i].window[2]>>
    /\ InWord /\ ending # None =>
          \A j \in (ending[1].ending_start + 1)..Len(word_by_letters) :
              ~ NoMapping(word_by_letters[j])

----------------------------------------------------------------------------
(* C6 *)

RECURSIVE RemainingFrom(_)
\* The steps the segments from the j-th on can still take.
RemainingFrom(j) ==
    IF j > Len(segments) THEN 0
    ELSE Len(segments[j]) + 2 + RemainingFrom(j + 1)

\* A bound on the number of steps left before the result is returned.
Measure ==
    CASE pc = "call" -> 3 * Len(s) + 6
      [] pc = "word" -> RemainingFrom(seg) + 1
      [] pc = "windows" ->
            (windows_count(Len(padded)) - win) + RemainingFrom(seg + 1) + 2
      [] pc = "return" -> 1
      [] OTHER -> 0

C6_NoFault ==
    /\ ~ panicked
    /\ pc # "panic"
    /\ Measure >= 0
    /\ pc # "done" => ENABLED Next
    /\ InWord /\ ending # None =>
          slice_ok(0, ending[1].ending_start, Len(word_by_letters))
    /\ pc = "windows" => slice_ok(0, win, Len(padded))
    /\ \A i \in 1..Len(hist) :
          /\ slice_ok(hist[i].at, hist[i].at + 3, Len(padded))
          /\ Len(hist[i].window) = 3
    /\ Collected /\ word_by_letters = <<>> => WordOutput = <<>>
    /\ pc = "done" =>
          /\ Len(out) = Len(segments)
          /\ concat(out) \in Seq(STRING)

\* C6: parse_by_schema and parse_word_by_schema never fault and terminate:
\* no slice of parse_ending, of the body or of a window is out of range,
\* every step before the return is followed by another, every step lowers
\* a natural-number measure, a word of length 0 yields the empty output,
\* and the result is a string.
C6_Totality == [] C6_NoFault /\ [][Measure' < Measure]_vars

\* The empty text transliterated to the end, and a three-letter word whose
\* two-letter ending was sliced off.
C6_Witness ==
    /\ pc = "done"
    /\ \/ s = <<>> /\ out = << <<>> >>
       \/ Len(word_by_letters) = 3 /\ ending # None /\ Len(body) = 1

----------------------------------------------------------------------------
(* C7 *)

Homogeneous(w) ==
    \/ \A i \in 1..Len(w) : is_word_char(w[i])
    \/ \A i \in 1..Len(w) : ~ is_word_char(w[i])

\* C7: the segments parse_by_schema obtains from the text, concatenated in
\* order before any transliteration, are the text; each segment consists
\* of word characters only or of non-word characters only.
C7_LosslessSegmentation ==
    entry = "parse_by_schema" /\ pc # "call" =>
        /\ concat(segments) = s
        /\ \A k \in 1..Len(segments) : Homogeneous(segments[k])

\* A text split into a word, a non-word segment and a word.
C7_Witness ==
    /\ entry = "parse_by_schema"
    /\ pc = "done"
    /\ \E k \in 1..(Len(segments) - 2) :
          /\ segments[k] # <<>> /\ is_word_char(segments[k][1])
          /\ segments[k + 1] # <<>> /\ ~ is_word_char(segments[k + 1][1])
          /\ segments[k + 2] # <<>> /\ is_word_char(segments[k + 2][1])

----------------------------------------------------------------------------
(* C8 *)

\* The letter outputs and the ending output of a word, as one value.
WordParts(letters) ==
    LET e == parse_ending(schema, letters).value
        b == word_without_ending(letters, e)
        p == <<DUMMY_SYMBOL>> \o b \o <<DUMMY_SYMBOL>>
    IN [ letters |-> [i \in 1..windows_count(Len(p)) |->
                         parse_letter(schema, slice(p, i - 1, i + 2))],
         tail |-> IF e # None THEN e[1].translate ELSE <<>> ]

\* The uppercase form of a string of the input alphabet.
source_to_uppercase(str) ==
    [i \in 1..Len(str) |-> char_to_uppercase(str[i])[1]]

\* C8: a matched ending's output is the table value when the matched suffix
\* has no uppercase character and the table value uppercased in full when
\* it has one; changing the case of the body letters leaves the ending
\* output as it is, and changing the case of the suffix leaves the body
\* letters' outputs as they are.
C8_EndingCase ==
    InWord /\ ending # None =>
        LET k == Len(word_by_letters) - ending[1].ending_start IN
        /\ ending[1].translate =
              IF has_uppercase(Suffix(k)) THEN to_uppercase(EndingValue(k))
              ELSE EndingValue(k)
        /\ WordParts(to_lowercase(body) \o Suffix(k)).tail
              = ending[1].translate
        /\ WordParts(source_to_uppercase(body) \o Suffix(k)).tail
              = ending[1].translate
        /\ Collected =>
              /\ WordParts(body \o to_lowercase(Suffix(k))).letters = Outputs
              /\ WordParts(body \o source_to_uppercase(Suffix(k))).letters
                    = Outputs

\* A resolved word with an uppercase body letter and a lowercase matched
\* suffix, and one with a lowercase body and an uppercase matched suffix.
C8_Witness ==
    /\ Collected
    /\ ending # None
    /\ LET k == Len(word_by_letters) - ending[1].ending_start IN
       \/ has_uppercase(body) /\ ~ has_uppercase(Suffix(k))
          /\ ending[1].translate # to_uppercase(ending[1].translate)
       \/ ~ has_uppercase(body) /\ has_uppercase(Suffix(k))
          /\ ending[1].translate # EndingValue(k)

----------------------------------------------------------------------------
(* C9 *)

\* C9: in a context lookup the neighbour contributes no character exactly
\* when it is the padding at the front or the back of the body; a real
\* character of the word, neighbour or centre, always contributes itself,
\* and get_letter is keyed by the real centre character.
C9_SentinelNeverCollides ==
    \A i \in 1..Len(hist) :
        LET w == hist[i].window
            front == i = 1
            back == i = Len(body)
        IN /\ hist[i].pref_key =
                 to_lowercase(IF front THEN <<w[2]>> ELSE <<w[1], w[2]>>)
           /\ hist[i].next_key =
                 to_lowercase(IF back THEN <<w[2]>> ELSE <<w[2], w[3]>>)
           /\ hist[i].letter_key = to_lowercase(<<w[2]>>)

----------------------------------------------------------------------------
(* C10 *)

\* C10: every character of the word is the centre of exactly one window or
\* part of the matched ending: the windows are those of the body in source
\* order, padded at the front and at the back; a matched ending leaves at
\* least one body character and its characters get no window; the output
\* is the window outputs in order followed by the ending output.
C10_ConsumedOnce ==
    InWord =>
        /\ Len(hist) <= Len(body)
        /\ pc = "windows" => Len(hist) = win
        /\ \A i \in 1..Len(hist) :
              /\ hist[i].at = i - 1
              /\ body[i] = word_by_letters[i]
              /\ hist[i].window =
                    << IF i = 1 THEN DUMMY_SYMBOL ELSE body[i - 1],
                       body[i],
                       IF i = Len(body) THEN DUMMY_SYMBOL ELSE body[i + 1] >>
        /\ ending = None => Len(body) = Len(word_by_letters)
        /\ ending # None =>
              /\ ending[1].ending_start >= 1
              /\ ending[1].ending_start < Len(word_by_letters)
              /\ Len(body) = ending[1].ending_start
        /\ Collected =>
              /\ Len(hist) = Len(body)
              /\ WordOutput = concat(Outputs)
                    \o (IF ending # None THEN ending[1].translate ELSE <<>>)

\* A word with a matched two-letter ending and a body of one letter,
\* resolved completely.
C10_Witness ==
    /\ Collected
    /\ ending # None
    /\ Len(body) = 1
    /\ Len(word_by_letters) = 3
    /\ Len(hist) = 1

====
